---- MODULE Spec2Model ----
(***************************************************************************)
(* Model of src/src/server/runtime.js: launchRuntime, i.e. the chain       *)
(*   getBinary().catch(downloadBinary).then(launchServer)                  *)
(* together with the child processes, the install directory, the release   *)
(* archive and the port prober it talks to.                                *)
(*                                                                         *)
(* Strings are sequences of lexemes: <<"fernspielapparat", ".", "exe">>    *)
(* is the string 'fernspielapparat.exe'.  The lexemes "fernspielapparat",  *)
(* "exe", "userData" and "README" stand for those literal texts, every     *)
(* other lexeme is one character.                                          *)
(***************************************************************************)
EXTENDS Integers, Sequences, FiniteSets, TLC

VARIABLES
  platform,      \* os.platform()
  onPath,        \* an executable named executableName is on the search path
  processEnv,    \* process.env
  childOut,      \* everything the --version child writes to stdout and stderr
  installedBefore, \* the Installer of an earlier call of launchRuntime resolved
  userDirFiles,  \* names of the files in the install directory (userDir)
  output,        \* `output` of fernspielapparatVersionOnPath: the chunks received
  vchild,        \* state of the --version child
  vcode,         \* exit code of the --version child, -1 before it exits
  pc,            \* stage of the launchRuntime promise chain
  resolver,      \* state of the promise of getBinary
  installer,     \* state of the promise of downloadBinary
  installerCalls,\* number of calls of downloadBinary
  tarball,       \* entries of the archive handed to decompress, in order; <<>> when none is
  pathToBinary,  \* argument of launchServer
  starting,      \* `starting` of launchServer
  spawnOpts,     \* command, arguments and options of the server spawn
  serverImage,   \* path of the file the server child executes
  server,        \* state of the server child
  serverCode,    \* exit code of the server child, -1 before it exits
  port,          \* the server child accepts connections on defaultBind.port
  probe,         \* state of the waitPort loop
  now,           \* milliseconds since waitPort was called
  nextAttempt,   \* time of the next connection attempt of waitPort
  doneCalls,     \* number of calls of done()
  outcome        \* settlement of the promise returned by launchRuntime

envVars == <<platform, onPath, processEnv, childOut, installedBefore>>
versionVars == <<output, vchild, vcode>>
chainVars == <<pc, resolver, installer, installerCalls, tarball>>
spawnVars == <<pathToBinary, spawnOpts, serverImage>>
serverVars == <<starting, server, serverCode, port>>
probeVars == <<probe, now, nextAttempt, doneCalls>>

vars == <<envVars, userDirFiles, versionVars, chainVars, spawnVars, serverVars,
          probeVars, outcome>>

(***************************************************************************)
(* Bounds of the model.                                                    *)
(***************************************************************************)
MaxOutLen == 3      \* longest --version output, in lexemes
MaxEntries == 2     \* most entries of a release archive
TickMs == 500       \* granularity of the clock
MaxTime == 6000     \* the clock stops here

Platforms == {"darwin", "win32", "linux"}
ExitCodes == {0, 1}
OutChars == {"a", " ", "\n"}

RECURSIVE StringsUpTo(_, _)
StringsUpTo(S, n) ==
  IF n = 0 THEN {<<>>}
  ELSE LET shorter == StringsUpTo(S, n - 1)
       IN shorter \cup {Append(s, c) : s \in {t \in shorter : Len(t) = n - 1}, c \in S}

(***************************************************************************)
(* Module constants, runtime.js:18-26.                                     *)
(***************************************************************************)
defaultBind == [host |-> "127.0.0.1", port |-> 38397]

wsUrlOfBindAddress == "ws://0.0.0.0:" \o ToString(defaultBind.port)

wsUrl == "ws://" \o defaultBind.host \o ":" \o ToString(defaultBind.port)

userDir == <<"userData">>

executableName ==
  IF platform = "win32" THEN <<"fernspielapparat", ".", "exe">>
  ELSE <<"fernspielapparat">>

\* the two literals launchServer compares pathToBinary with (runtime.js:101)
BareNames == {<<"fernspielapparat">>, <<"fernspielapparat", ".", "exe">>}

userBinaryPath == userDir \o <<"/">> \o executableName

\* path.dirname of a path with at least one "/"
RECURSIVE dirname(_)
dirname(p) ==
  IF p = <<>> THEN <<>>
  ELSE IF p[Len(p)] = "/" THEN SubSeq(p, 1, Len(p) - 1)
  ELSE dirname(SubSeq(p, 1, Len(p) - 1))

(***************************************************************************)
(* Settlement of a promise: the first resolve or reject wins, later calls  *)
(* are ignored.                                                            *)
(***************************************************************************)
Pending == [kind |-> "pending", err |-> "", code |-> -1, process |-> "", url |-> ""]
Rejected(e, c) == [kind |-> "rejected", err |-> e, code |-> c, process |-> "", url |-> ""]
Resolved(p, u) == [kind |-> "resolved", err |-> "", code |-> -1, process |-> p, url |-> u]

SettleLastWins(cur, new) == new

Settle(cur, new) == IF cur.kind = "pending" THEN new ELSE cur

(***************************************************************************)
(* envForPlatform, runtime.js:296-350.  An environment variable is a       *)
(* record: set = FALSE is JavaScript's undefined.                         *)
(***************************************************************************)
Unset == [set |-> FALSE, val |-> <<>>]
Val(v) == [set |-> TRUE, val |-> v]

\* `${x}`: undefined is formatted as the text 'undefined'
Str(x) == IF x.set THEN x.val ELSE <<"undefined">>

\* truthiness of a string or undefined
Truthy(x) == x.set /\ x.val # <<>>

\* path.delimiter
delimiter == IF platform = "win32" THEN ";" ELSE ":"

\* the lexemes in which /vlc/i finds a match
VlcLexemes ==
  {"/Applications/VLC.app/Contents/MacOS", "/Applications/VLC.app/Contents/MacOS/lib",
   "/Applications/VLC.app/Contents/MacOS/plugins", "\\VideoLAN\\VLC",
   "\\VideoLAN\\VLC\\plugins", "/opt/vlc/lib"}

vlcRegexCaseSensitive(x) == \E i \in 1..Len(Str(x)) : Str(x)[i] = "/opt/vlc/lib"

\* vlcRegex.exec(x) is not null; exec formats its argument as a string first
vlcRegex(x) == \E i \in 1..Len(Str(x)) : Str(x)[i] \in VlcLexemes

vlcPluginDir(penv) ==
  IF platform = "darwin" THEN <<"/Applications/VLC.app/Contents/MacOS/plugins">>
  ELSE IF platform = "win32" THEN Str(penv.ProgramFiles) \o <<"\\VideoLAN\\VLC\\plugins">>
  ELSE <<>>

vlcLibDir(penv) ==
  IF platform = "darwin"
  THEN <<"/Applications/VLC.app/Contents/MacOS", ":", "/Applications/VLC.app/Contents/MacOS/lib">>
  ELSE IF platform = "win32" THEN Str(penv.ProgramFiles) \o <<"\\VideoLAN\\VLC">>
  ELSE <<>>

envForPlatformAlwaysAppends(penv) ==
  IF platform = "darwin" THEN
    [penv EXCEPT
      !.DYLD_LIBRARY_PATH = Val(Str(penv.DYLD_LIBRARY_PATH) \o <<delimiter>> \o vlcLibDir(penv)),
      !.VLC_PLUGIN_PATH = Val(vlcPluginDir(penv))]
  ELSE IF platform = "win32" THEN
    [penv EXCEPT
      !.Path = Val(Str(penv.Path) \o <<delimiter>> \o vlcLibDir(penv)),
      !.VLC_PLUGIN_PATH = Val(vlcPluginDir(penv))]
  ELSE penv

envForPlatform(penv) ==
  IF platform = "darwin" THEN
    [penv EXCEPT
      !.DYLD_LIBRARY_PATH =
        IF ~vlcRegex(penv.DYLD_LIBRARY_PATH)
        THEN Val((IF Truthy(penv.DYLD_LIBRARY_PATH)
                  THEN penv.DYLD_LIBRARY_PATH.val \o <<delimiter>>
                  ELSE <<>>) \o vlcLibDir(penv))
        ELSE penv.DYLD_LIBRARY_PATH,
      !.VLC_PLUGIN_PATH =
        IF ~Truthy(penv.VLC_PLUGIN_PATH) THEN Val(vlcPluginDir(penv))
        ELSE penv.VLC_PLUGIN_PATH]
  ELSE IF platform = "win32" THEN
    [penv EXCEPT
      !.Path =
        IF ~vlcRegex(penv.Path)
        THEN Val(Str(penv.Path) \o <<delimiter>> \o vlcLibDir(penv))
        ELSE penv.Path,
      !.VLC_PLUGIN_PATH =
        IF ~Truthy(penv.VLC_PLUGIN_PATH) THEN Val(vlcPluginDir(penv))
        ELSE penv.VLC_PLUGIN_PATH]
  ELSE penv

\* process.env of the launches the model follows
EmptyEnv ==
  [DYLD_LIBRARY_PATH |-> Unset, Path |-> Unset, VLC_PLUGIN_PATH |-> Unset,
   ProgramFiles |-> Unset]

AmbientEnvs ==
  {EmptyEnv,
   [DYLD_LIBRARY_PATH |-> Val(<<"/usr/lib">>), Path |-> Val(<<"C:\\Windows">>),
    VLC_PLUGIN_PATH |-> Unset, ProgramFiles |-> Val(<<"C:\\Program Files">>)]}

\* process.env of the calls of envForPlatform that are followed on their own
EnvInputs ==
  [DYLD_LIBRARY_PATH :
     {Unset, Val(<<>>), Val(<<"/usr/lib">>),
      Val(<<"/usr/lib", ":", "/Applications/VLC.app/Contents/MacOS/lib">>),
      Val(<<"/opt/vlc/lib">>)},
   Path :
     {Unset, Val(<<"C:\\Windows">>),
      Val(<<"C:\\Windows", ";", "C:\\Program Files", "\\VideoLAN\\VLC">>)},
   VLC_PLUGIN_PATH : {Unset, Val(<<>>), Val(<<"/opt/vlc/lib">>)},
   ProgramFiles : {Unset, Val(<<"C:\\Program Files">>)}]

(***************************************************************************)
(* fernspielapparatVersionOnPath, runtime.js:161-198.                      *)
(***************************************************************************)
\* String.prototype.split(' '): the pieces between single space characters
RECURSIVE Split(_)
Split(s) ==
  IF s = <<>> THEN << <<>> >>
  ELSE LET rest == Split(Tail(s))
       IN IF Head(s) = " " THEN << <<>> >> \o rest
          ELSE << <<Head(s)>> \o Head(rest) >> \o Tail(rest)

WhiteSpace == {" ", "\n"}

\* String.prototype.trim()
RECURSIVE trim(_)
trim(s) ==
  IF s = <<>> THEN s
  ELSE IF Head(s) \in WhiteSpace THEN trim(Tail(s))
  ELSE IF s[Len(s)] \in WhiteSpace THEN trim(SubSeq(s, 1, Len(s) - 1))
  ELSE s

\* the 'exit' handler of the --version child: how it settles the probe
VersionOnExit(code, out) ==
  IF code # 0 THEN [ok |-> FALSE, version |-> <<>>, err |-> "UnsuccessfulExit"]
  ELSE IF Len(Split(out)) = 2
       THEN [ok |-> TRUE, version |-> trim(Split(out)[2]), err |-> ""]
       ELSE [ok |-> FALSE, version |-> <<>>, err |-> "UnexpectedOutput"]

(***************************************************************************)
(* extractExecutableToUserDir, runtime.js:242-280.                         *)
(***************************************************************************)
\* lexemes that are a single character, which '.' of a regular expression matches
SingleChars == {".", "-", "/", " ", "a", ":", ";"}

\* /fernspielapparat$/.test(s)
RegexExe(s) == Len(s) >= 1 /\ s[Len(s)] = "fernspielapparat"

\* /fernspielapparat.exe$/.test(s): the dot is not escaped
RegexDotExe(s) ==
  /\ Len(s) >= 3
  /\ s[Len(s)] = "exe"
  /\ s[Len(s) - 1] \in SingleChars
  /\ s[Len(s) - 2] = "fernspielapparat"

\* tar.map: the header name an entry is extracted under; where the callback
\* returns null the extractor keeps the header it had
MapHeader(name) ==
  IF RegexExe(name) THEN <<"fernspielapparat">>
  ELSE IF RegexDotExe(name) THEN <<"fernspielapparat", ".", "exe">>
  ELSE name

\* tar.ignore is called with the destination path of the mapped entry
DestPath(name) == userDir \o <<"/">> \o MapHeader(name)

isExecutable(file) == RegexExe(file) \/ RegexDotExe(file)

\* the entries of the archive in order: the files written below userDir and
\* the last value assigned to `binary` (<<>> is undefined)
RECURSIVE Extract(_, _, _)
Extract(entries, files, binary) ==
  IF entries = <<>> THEN [files |-> files, binary |-> binary]
  ELSE LET file == DestPath(Head(entries))
       IN IF isExecutable(file)
          THEN Extract(Tail(entries), files \cup {MapHeader(Head(entries))}, file)
          ELSE Extract(Tail(entries), files, binary)

\* the callback of decompress: how it settles the Installer
DecompressCallback(err, binary) ==
  IF err THEN [ok |-> FALSE, path |-> <<>>, err |-> "DecompressFailed"]
  ELSE IF binary = <<>> THEN [ok |-> FALSE, path |-> <<>>, err |-> "NoExecutableInTarball"]
  ELSE [ok |-> TRUE, path |-> binary, err |-> ""]

EntryNames ==
  {<<"dist", "/", "fernspielapparat">>, <<"fernspielapparat", ".", "exe">>,
   <<"fernspielapparat", "-", "exe">>, <<"README">>}

Archives == StringsUpTo(EntryNames, MaxEntries)

(***************************************************************************)
(* launchServer, runtime.js:91-159.                                        *)
(***************************************************************************)
NoCwd == <<>>   \* opts.cwd is not set: the child inherits the working directory

NoSpawn == [cmd |-> <<>>, args |-> <<>>, cwd |-> NoCwd, env |-> EmptyEnv]

\* the options launchServer passes to spawn (runtime.js:94-113)
SpawnOptions(path) ==
  [cmd  |-> executableName,
   args |-> <<"-vvvv", "-s">>,
   cwd  |-> IF path # <<>> /\ path \notin BareNames THEN dirname(path) ELSE NoCwd,
   env  |-> envForPlatform(processEnv)]

NoImage == <<>>
SearchPath == <<"$PATH">>

\* The file child_process.spawn executes for a command without a directory
\* part: on win32 the working directory of the child is searched before the
\* search path, elsewhere only the search path is.  NoImage: the spawn fails.
SpawnTarget(opts, files) ==
  IF platform = "win32" /\ opts.cwd = userDir /\ opts.cmd \in files
  THEN opts.cwd \o <<"/">> \o opts.cmd
  ELSE IF onPath THEN SearchPath \o <<"/">> \o opts.cmd
  ELSE NoImage

\* the 'exit' handler of the server child (runtime.js:122-133)
ExitHandlerOnlyOnFailure(st, code, cur) ==
  IF st /\ code # 0 THEN Settle(cur, Rejected("PrematureExit", code)) ELSE cur

ExitHandler(st, code, cur) ==
  IF st THEN Settle(cur, Rejected("PrematureExit", code)) ELSE cur

\* the 'error' handler of the server child (runtime.js:134-136)
ErrorHandler(cur) == Settle(cur, Rejected("SpawnFailed", -1))

\* done() (runtime.js:152-157)
Done(cur) == Settle(cur, Resolved("server", wsUrl))

ProbeRejectedWithHandle(cur) ==
  Settle(cur, [Rejected("ProbeTimeout", -1) EXCEPT !.process = "server"])

\* the rejection handler of the waitPort promise (runtime.js:147-149)
ProbeRejected(cur) == Settle(cur, Rejected("ProbeTimeout", -1))

(***************************************************************************)
(* waitPort of wait-port ^0.2.4 (package.json:57) as launchServer calls it *)
(* (runtime.js:138-145).  waitPort takes one argument: the second, 5000,   *)
(* is not read.  params.timeout is the time after which a failed attempt   *)
(* ends the wait, params.interval (default 1000) the pause between two     *)
(* attempts.  The promise is fulfilled with true when a connection was     *)
(* accepted, fulfilled with false when the wait ended, and rejected when a *)
(* connection attempt failed for a reason other than a refused connection. *)
(* Connections to 127.0.0.1 are accepted or refused at once.               *)
(***************************************************************************)
WaitPortTimeout == 150

WaitPortExtraArg == 5000

WaitPortInterval == 1000

\* one turn of the loop of waitPort, given whether the connection was accepted
WaitPortLoop(open, elapsed) ==
  IF open THEN "true"
  ELSE IF WaitPortTimeout # 0 /\ elapsed > WaitPortTimeout THEN "false"
  ELSE "retry"

\* launchServer(path) up to its return: the spawn and the start of waitPort
LaunchServer(path, files) ==
  /\ pathToBinary' = path
  /\ starting' = TRUE
  /\ spawnOpts' = SpawnOptions(path)
  /\ serverImage' = SpawnTarget(SpawnOptions(path), files)
  /\ server' = IF SpawnTarget(SpawnOptions(path), files) = NoImage THEN "failed" ELSE "running"
  /\ probe' = "connecting"
  /\ now' = 0
  /\ nextAttempt' = 0
  /\ pc' = "launch"
  /\ UNCHANGED <<serverCode, port, doneCalls, outcome>>

(***************************************************************************)
(* launchRuntime, runtime.js:48-52: a rejection of downloadBinary skips    *)
(* .then(launchServer) and rejects the returned promise.                   *)
(***************************************************************************)
InstallerErrors ==
  {"ReleaseFailed", "DownloadFailed", "DecompressFailed", "NoExecutableInTarball"}

LaunchRuntimeSwallows(cur, err) == cur

LaunchRuntimeRejects(cur, err) == Settle(cur, Rejected(err, -1))

InstallerFails(err) ==
  /\ installer' = err
  /\ pc' = "failed"
  /\ outcome' = LaunchRuntimeRejects(outcome, err)
  /\ UNCHANGED <<spawnVars, serverVars, probeVars>>

(***************************************************************************)
(* The state when launchRuntime has returned its promise: getBinary has    *)
(* spawned the --version child.                                            *)
(***************************************************************************)
Init ==
  /\ platform \in Platforms
  /\ onPath \in BOOLEAN
  /\ processEnv \in AmbientEnvs
  /\ childOut \in IF onPath THEN StringsUpTo(OutChars, MaxOutLen) ELSE {<<>>}
  /\ installedBefore = FALSE
  /\ userDirFiles \in {{}, {executableName}}
  /\ output = <<>>
  /\ vchild = IF onPath THEN "running" ELSE "failed"
  /\ vcode = -1
  /\ pc = "version"
  /\ resolver = "probing"
  /\ installer = "idle"
  /\ installerCalls = 0
  /\ tarball = <<>>
  /\ pathToBinary = <<>>
  /\ starting = FALSE
  /\ spawnOpts = NoSpawn
  /\ serverImage = NoImage
  /\ server = "none"
  /\ serverCode = -1
  /\ port = FALSE
  /\ probe = "idle"
  /\ now = 0
  /\ nextAttempt = 0
  /\ doneCalls = 0
  /\ outcome = Pending

(***************************************************************************)
(* getBinary, runtime.js:61-74 and 161-215.                                *)
(***************************************************************************)
\* a 'data' event of the --version child.  Chunks that arrive after 'exit'
\* are appended to a variable nothing reads again: they are the rest of
\* childOut.
VersionData ==
  /\ vchild = "running"
  /\ Len(output) < Len(childOut)
  /\ output' = Append(output, childOut[Len(output) + 1])
  /\ UNCHANGED <<envVars, userDirFiles, vchild, vcode, chainVars, spawnVars,
                 serverVars, probeVars, outcome>>

\* the 'error' event: the probe rejects, getBinary goes on with fs.access
VersionError ==
  /\ vchild = "failed"
  /\ vchild' = "errored"
  /\ pc' = "access"
  /\ resolver' = "access"
  /\ UNCHANGED <<envVars, userDirFiles, output, vcode, installer, installerCalls,
                 tarball, spawnVars, serverVars, probeVars, outcome>>

\* the 'exit' event: the probe resolves and launchServer(executableName) is
\* called, or it rejects and getBinary goes on with fs.access
VersionExit ==
  /\ vchild = "running"
  /\ vchild' = "exited"
  /\ \E code \in ExitCodes :
       /\ vcode' = code
       /\ IF VersionOnExit(code, output).ok
          THEN /\ resolver' = "path"
               /\ LaunchServer(executableName, userDirFiles)
          ELSE /\ resolver' = "access"
               /\ pc' = "access"
               /\ UNCHANGED <<spawnVars, serverVars, probeVars, outcome>>
  /\ UNCHANGED <<envVars, userDirFiles, output, installer, installerCalls, tarball>>

\* fs.access(binaryPath, perms, callback) calls back with an error or not
AccessError == executableName \notin userDirFiles

\* the callback of fs.access: launchServer(binaryPath), or getBinary rejects
\* and launchRuntime calls downloadBinary
FsAccessCallbackNoInstall ==
  /\ pc = "access"
  /\ resolver' = IF AccessError THEN "rejected" ELSE "userdir"
  /\ LaunchServer(userBinaryPath, userDirFiles)
  /\ UNCHANGED <<envVars, userDirFiles, versionVars, installer, installerCalls, tarball>>

FsAccessCallback ==
  /\ pc = "access"
  /\ IF AccessError
     THEN /\ resolver' = "rejected"
          /\ installerCalls' = installerCalls + 1
          /\ installer' = "releaseUrl"
          /\ pc' = "releaseUrl"
          /\ UNCHANGED <<spawnVars, serverVars, probeVars, outcome>>
     ELSE /\ resolver' = "userdir"
          /\ LaunchServer(userBinaryPath, userDirFiles)
          /\ UNCHANGED <<installer, installerCalls>>
  /\ UNCHANGED <<envVars, userDirFiles, versionVars, tarball>>

(***************************************************************************)
(* downloadBinary, runtime.js:236-280.                                     *)
(***************************************************************************)
\* the promise of releaseTarballUrl() settles
ReleaseTarballUrl ==
  /\ pc = "releaseUrl"
  /\ \E ok \in BOOLEAN :
       IF ok
       THEN /\ pc' = "download"
            /\ installer' = "download"
            /\ UNCHANGED <<spawnVars, serverVars, probeVars, outcome>>
       ELSE InstallerFails("ReleaseFailed")
  /\ UNCHANGED <<envVars, userDirFiles, versionVars, resolver, installerCalls, tarball>>

\* the promise of downloadTarball(url, 'fernspielapparat.tar.gz') settles:
\* the archive is in the file
DownloadTarball ==
  /\ pc = "download"
  /\ \E ok \in BOOLEAN :
       IF ok
       THEN /\ pc' = "decompress"
            /\ installer' = "decompress"
            /\ tarball' \in Archives
            /\ UNCHANGED <<spawnVars, serverVars, probeVars, outcome>>
       ELSE /\ InstallerFails("DownloadFailed")
            /\ tarball' = tarball
  /\ UNCHANGED <<envVars, userDirFiles, versionVars, resolver, installerCalls>>

\* decompress calls back: with an error after it has read the entries up to
\* the first it cannot read, or without one after it has read them all
Decompress ==
  /\ pc = "decompress"
  /\ \E n \in 0..Len(tarball), err \in BOOLEAN :
       LET ex == Extract(SubSeq(tarball, 1, n), userDirFiles, <<>>)
           cb == DecompressCallback(err, ex.binary)
       IN /\ (n < Len(tarball) => err)
          /\ userDirFiles' = ex.files
          /\ IF cb.ok
             THEN /\ installer' = "resolved"
                  /\ LaunchServer(cb.path, ex.files)
             ELSE InstallerFails(cb.err)
  /\ tarball' = <<>>
  /\ UNCHANGED <<envVars, versionVars, resolver, installerCalls>>

(***************************************************************************)
(* The events of launchServer, runtime.js:115-157.  The 'data' handlers    *)
(* of the server child only log.                                           *)
(***************************************************************************)
\* the server child starts to accept connections on defaultBind.port
ServerListen ==
  /\ server = "running"
  /\ ~port
  /\ port' = TRUE
  /\ UNCHANGED <<envVars, userDirFiles, versionVars, chainVars, spawnVars, starting,
                 server, serverCode, probeVars, outcome>>

\* the 'exit' event of the server child
ServerExit ==
  /\ server = "running"
  /\ \E code \in ExitCodes :
       /\ server' = "exited"
       /\ serverCode' = code
       /\ port' = FALSE
       /\ starting' = IF starting THEN FALSE ELSE starting
       /\ outcome' = ExitHandler(starting, code, outcome)
  /\ UNCHANGED <<envVars, userDirFiles, versionVars, chainVars, spawnVars, probeVars>>

\* the 'error' event of the server child: the spawn failed
ServerError ==
  /\ server = "failed"
  /\ server' = "errored"
  /\ outcome' = ErrorHandler(outcome)
  /\ UNCHANGED <<envVars, userDirFiles, versionVars, chainVars, spawnVars, starting,
                 serverCode, port, probeVars>>

\* a connection attempt of waitPort ends: accepted, or refused
WaitPortAttempt ==
  /\ probe = "connecting"
  /\ IF WaitPortLoop(port, now) = "retry"
     THEN /\ probe' = "sleeping"
          /\ nextAttempt' = now + WaitPortInterval
          /\ UNCHANGED <<doneCalls, outcome>>
     ELSE /\ probe' = "done"
          /\ nextAttempt' = nextAttempt
          /\ doneCalls' = doneCalls + 1
          /\ outcome' = Done(outcome)
  /\ UNCHANGED <<envVars, userDirFiles, versionVars, chainVars, spawnVars, serverVars, now>>

\* a connection attempt of waitPort fails with an error it does not retry on
WaitPortError ==
  /\ probe = "connecting"
  /\ probe' = "failed"
  /\ outcome' = ProbeRejected(outcome)
  /\ UNCHANGED <<envVars, userDirFiles, versionVars, chainVars, spawnVars, serverVars,
                 now, nextAttempt, doneCalls>>

\* the timer of waitPort fires: the next attempt starts
WaitPortTimer ==
  /\ probe = "sleeping"
  /\ now >= nextAttempt
  /\ probe' = "connecting"
  /\ UNCHANGED <<envVars, userDirFiles, versionVars, chainVars, spawnVars, serverVars,
                 now, nextAttempt, doneCalls, outcome>>

\* time passes while waitPort waits for its timer
Tick ==
  /\ probe = "sleeping"
  /\ now < nextAttempt
  /\ now < MaxTime
  /\ now' = now + TickMs
  /\ UNCHANGED <<envVars, userDirFiles, versionVars, chainVars, spawnVars, serverVars,
                 probe, nextAttempt, doneCalls, outcome>>

Next ==
  \/ VersionData
  \/ VersionError
  \/ VersionExit
  \/ FsAccessCallback
  \/ ReleaseTarballUrl
  \/ DownloadTarball
  \/ Decompress
  \/ ServerListen
  \/ ServerExit
  \/ ServerError
  \/ WaitPortAttempt
  \/ WaitPortError
  \/ WaitPortTimer
  \/ Tick

Spec == Init /\ [][Next]_vars

(***************************************************************************)
(* envForPlatform on its own, runtime.js:296-327: the call in              *)
(* fernspielapparatVersionOnPath (runtime.js:169) for every platform and   *)
(* every ambient environment of EnvInputs.                                 *)
(***************************************************************************)
EnvInit ==
  /\ platform \in Platforms
  /\ onPath = FALSE
  /\ processEnv \in EnvInputs
  /\ childOut = <<>>
  /\ installedBefore = FALSE
  /\ userDirFiles = {}
  /\ output = <<>>
  /\ vchild = "none"
  /\ vcode = -1
  /\ pc = "env"
  /\ resolver = "probing"
  /\ installer = "idle"
  /\ installerCalls = 0
  /\ tarball = <<>>
  /\ pathToBinary = <<>>
  /\ starting = FALSE
  /\ spawnOpts = NoSpawn
  /\ serverImage = NoImage
  /\ server = "none"
  /\ serverCode = -1
  /\ port = FALSE
  /\ probe = "idle"
  /\ now = 0
  /\ nextAttempt = 0
  /\ doneCalls = 0
  /\ outcome = Pending

\* const env = { ...process.env }, the overlay, return env; the result is the
\* env option of the spawn of the --version child
EnvForPlatformCall ==
  /\ pc = "env"
  /\ pc' = "version"
  /\ processEnv' = processEnv
  /\ spawnOpts' = [cmd |-> executableName, args |-> <<"--version">>, cwd |-> NoCwd,
                   env |-> envForPlatform(processEnv)]
  /\ UNCHANGED <<platform, onPath, childOut, installedBefore, userDirFiles, versionVars, resolver,
                 installer, installerCalls, tarball, pathToBinary, serverImage,
                 serverVars, probeVars, outcome>>

EnvNext == EnvForPlatformCall

EnvSpec == EnvInit /\ [][EnvNext]_vars

(***************************************************************************)
(* Successive runs of the application.  launchRuntime is the export of the *)
(* module (runtime.js:48): a later run calls it again when the call before *)
(* is over and its server child is gone.  The platform, the search path,   *)
(* the environment and the install directory are what the run before left. *)
(***************************************************************************)
Relaunch ==
  /\ \/ pc = "failed"
     \/ pc = "launch" /\ server \in {"exited", "errored"} /\ probe \in {"done", "failed"}
  /\ installedBefore' = (installedBefore \/ installer = "resolved")
  /\ output' = <<>>
  /\ vchild' = IF onPath THEN "running" ELSE "failed"
  /\ vcode' = -1
  /\ pc' = "version"
  /\ resolver' = "probing"
  /\ installer' = "idle"
  /\ installerCalls' = 0
  /\ tarball' = <<>>
  /\ pathToBinary' = <<>>
  /\ starting' = FALSE
  /\ spawnOpts' = NoSpawn
  /\ serverImage' = NoImage
  /\ server' = "none"
  /\ serverCode' = -1
  /\ port' = FALSE
  /\ probe' = "idle"
  /\ now' = 0
  /\ nextAttempt' = 0
  /\ doneCalls' = 0
  /\ outcome' = Pending
  /\ UNCHANGED <<platform, onPath, processEnv, childOut, userDirFiles>>

RunsNext == Next \/ Relaunch

RunsSpec == Init /\ [][RunsNext]_vars

(***************************************************************************)
(* Properties.                                                             *)
(***************************************************************************)
\* number of whitespace-separated tokens of a string
RECURSIVE Tokens(_)
Tokens(s) ==
  IF s = <<>> THEN 0
  ELSE IF Head(s) \in WhiteSpace THEN Tokens(Tail(s))
  ELSE IF Len(s) >= 2 /\ s[2] \notin WhiteSpace THEN Tokens(Tail(s))
  ELSE 1 + Tokens(Tail(s))

\* the string s ends with the string t
EndsWith(s, t) == Len(s) >= Len(t) /\ SubSeq(s, Len(s) - Len(t) + 1, Len(s)) = t

\* C1: when the server child exits while the launch is still pending, the
\* launch is rejected in that step with the premature-exit error carrying
\* the exit code, and a premature-exit rejection is never replaced by
\* another outcome such as the probe timeout.
C1_PrematureExitRejects ==
  [][/\ (server = "running" /\ server' = "exited" /\ outcome.kind = "pending")
          => outcome' = Rejected("PrematureExit", serverCode')
     /\ outcome.err = "PrematureExit" => outcome' = outcome]_vars

\* an exit with code 1 before any timer of the prober fired, and a later
\* rejection of the prober's promise that left the outcome as it was
C1_Witness ==
  /\ outcome = Rejected("PrematureExit", 1)
  /\ serverCode = 1
  /\ now = 0
  /\ probe = "failed"

\* C2: while the server child runs and never accepts a connection, the
\* launch does not resolve with a handle, and it is rejected with the
\* probe-timeout error no earlier than 5 seconds after the start and no
\* later.
C2_ProbeTimeoutAtDeadline ==
  (pc = "launch" /\ server = "running" /\ ~port /\ probe # "failed")
    => /\ outcome.kind # "resolved"
       /\ outcome.kind = "rejected" => (outcome.err = "ProbeTimeout" /\ now >= WaitPortExtraArg)
       /\ now > WaitPortExtraArg => outcome.kind = "rejected"

\* C3: when a connection attempt of the prober is accepted while the server
\* child runs, the launch resolves in that step with the handle of the
\* spawned child and the URL ws://127.0.0.1:38397.
C3_ReadyResolvesWithHandle ==
  [][(probe = "connecting" /\ probe' = "done" /\ port /\ server = "running")
        => outcome' = [kind |-> "resolved", err |-> "", code |-> -1,
                       process |-> "server", url |-> "ws://127.0.0.1:38397"]]_vars

\* the first attempt was accepted and the launch is resolved
C3_Witness ==
  /\ outcome.kind = "resolved"
  /\ outcome.url = "ws://127.0.0.1:38397"
  /\ outcome.process = "server"
  /\ port
  /\ server = "running"
  /\ now = 0

\* C4: when the system executable exits with code zero after writing
\* exactly two tokens, downloadBinary is not called and launchServer gets
\* the bare executable name.
C4_SystemBinaryNeverInstalls ==
  (vchild = "exited" /\ vcode = 0 /\ Tokens(childOut) = 2)
    => /\ installerCalls = 0
       /\ resolver = "path"
       /\ pathToBinary = executableName

\* C5: when the version probe and the permission check of the install
\* directory both failed, downloadBinary has been called exactly once, and
\* launchServer is not entered before the Installer has resolved.
C5_InstallerOnceBeforeSpawn ==
  resolver = "rejected"
    => /\ installerCalls = 1
       /\ (pathToBinary # <<>> \/ server # "none" \/ probe # "idle" \/ spawnOpts # NoSpawn)
            => installer = "resolved"

\* the Installer resolved and the server child was spawned after it
C5_Witness ==
  /\ resolver = "rejected"
  /\ installerCalls = 1
  /\ installer = "resolved"
  /\ server = "running"
  /\ pathToBinary # <<>>

\* C6: when the Installer fails, launchRuntime is rejected with that
\* failure, launchServer is not called, no server child is spawned and no
\* prober started; and before launchServer is called, a failure of the
\* Installer is the only one that rejects launchRuntime.
C6_InstallerFailureIsTerminal ==
  /\ installer \in InstallerErrors
       => /\ outcome = Rejected(installer, -1)
          /\ pc = "failed"
          /\ pathToBinary = <<>>
          /\ spawnOpts = NoSpawn
          /\ server = "none"
          /\ probe = "idle"
  /\ (outcome.kind = "rejected" /\ pc # "launch") => installer \in InstallerErrors
  /\ resolver = "rejected" => installer # "idle"

\* the archive held no executable: launchRuntime rejected with that error
C6_Witness ==
  /\ installer = "NoExecutableInTarball"
  /\ outcome = Rejected("NoExecutableInTarball", -1)
  /\ resolver = "rejected"
  /\ server = "none"

\* an 'exit' or 'error' event of the server child, or the settlement of the
\* promise of waitPort
TerminalEvent ==
  \/ server' # server /\ server' \in {"exited", "errored"}
  \/ probe' # probe /\ probe' \in {"done", "failed"}

\* C7: the first exit, error, prober success or prober failure of a launch
\* settles the outcome, every later event leaves it as it is, and done()
\* builds at most one handle.
C7_FirstEventWins ==
  [][/\ outcome.kind # "pending" => outcome' = outcome
     /\ (pc = "launch" /\ outcome.kind = "pending" /\ TerminalEvent)
          => outcome'.kind # "pending"
     /\ doneCalls' <= 1]_vars

\* done() was called after the exit of the child had rejected the launch
C7_Witness ==
  /\ outcome.kind = "rejected"
  /\ outcome.err = "PrematureExit"
  /\ doneCalls = 1
  /\ probe = "done"

\* C8: the server child executes the file launchServer was given: the file
\* at the path when the path is in the install directory, the search-path
\* executable when it is the bare name; with the arguments -vvvv -s and
\* the environment of envForPlatform.
C8_SpawnsResolvedExecutable ==
  pc = "launch"
    => /\ pathToBinary \notin BareNames => serverImage = pathToBinary
       /\ pathToBinary \in BareNames => serverImage = SearchPath \o <<"/">> \o pathToBinary
       /\ spawnOpts.args = <<"-vvvv", "-s">>
       /\ spawnOpts.env = envForPlatform(processEnv)

\* C9: when the --version child exits with code zero and what it wrote
\* has zero, one, or three or more tokens, getBinary goes on to the check
\* of the install directory and does not resolve to the search-path
\* executable.
C9_MalformedVersionIsRejected ==
  (vchild = "exited" /\ vcode = 0 /\ Tokens(childOut) # 2)
    => resolver \in {"access", "userdir", "rejected"}

\* C10: when decompress reports no error and no entry of the archive has a
\* name that ends in fernspielapparat or fernspielapparat.exe, the Installer
\* rejects with the 'Could not find executable in tarball' error.
C10_NoExecutableInArchive ==
  [][(/\ pc = "decompress"
      /\ pc' # "decompress"
      /\ installer' # "DecompressFailed"
      /\ \A i \in 1..Len(tarball) :
           /\ ~EndsWith(tarball[i], <<"fernspielapparat">>)
           /\ ~EndsWith(tarball[i], <<"fernspielapparat", ".", "exe">>))
        => installer' = "NoExecutableInTarball"]_vars

\* C11: the step in which decompress calls back writes to the install
\* directory only files named fernspielapparat or fernspielapparat.exe, and
\* each of them only when the archive has an entry whose name ends in
\* fernspielapparat or in fernspielapparat.exe respectively.
C11_OnlyExecutableEntriesWritten ==
  [][(pc = "decompress" /\ pc' # "decompress")
        => \A f \in userDirFiles' \ userDirFiles :
             /\ f \in BareNames
             /\ \E i \in 1..Len(tarball) : EndsWith(tarball[i], f)]_vars

\* the value of an environment variable contains 'vlc' in upper or lower case
ReferencesVlc(x) == x.set /\ \E i \in 1..Len(x.val) : x.val[i] \in VlcLexemes

\* C12: no step changes process.env, and when the ambient library search
\* path of the platform (DYLD_LIBRARY_PATH on darwin, Path on win32) already
\* contains 'vlc' in any case, the mapping envForPlatform returns has that
\* variable with the ambient value.
C12_AmbientEnvUntouched ==
  [][/\ processEnv' = processEnv
     /\ (pc = "env" /\ pc' = "version")
          => /\ (platform = "darwin" /\ ReferencesVlc(processEnv.DYLD_LIBRARY_PATH))
                  => spawnOpts'.env.DYLD_LIBRARY_PATH = processEnv.DYLD_LIBRARY_PATH
             /\ (platform = "win32" /\ ReferencesVlc(processEnv.Path))
                  => spawnOpts'.env.Path = processEnv.Path]_vars

\* on win32 the ambient Path names the VLC directory in upper case: it is
\* returned as it was, while the plugin path was added to the copy
C12_Witness ==
  /\ pc = "version"
  /\ platform = "win32"
  /\ ReferencesVlc(processEnv.Path)
  /\ ~processEnv.VLC_PLUGIN_PATH.set
  /\ spawnOpts.env.Path = processEnv.Path
  /\ spawnOpts.env.VLC_PLUGIN_PATH.set

\* C13: in a call of launchRuntime that follows one whose Installer
\* resolved, when the version probe has failed and fs.access has called
\* back, getBinary has resolved to the path in the install directory and
\* downloadBinary has not been called.
C13_InstallDirIsCache ==
  (installedBefore /\ resolver \in {"userdir", "rejected"})
    => (resolver = "userdir" /\ installerCalls = 0 /\ pathToBinary = userBinaryPath)

\* C14: whenever getBinary has resolved, to the bare name or to the path in
\* the install directory, a --version child of this call has exited with
\* code zero and with output the version probe accepts.
C14_ResolvedBinaryAnsweredVersion ==
  resolver \in {"path", "userdir"}
    => (vchild = "exited" /\ vcode = 0 /\ VersionOnExit(vcode, output).ok)

\* C15: when decompress calls back without an error and the archive has an
\* entry whose name ends in fernspielapparat or in fernspielapparat.exe, the
\* Installer resolves to userBinaryPath() and the install directory holds a
\* file with the executable name of the platform.
C15_StoredUnderPlatformName ==
  [][(/\ pc = "decompress"
      /\ pc' # "decompress"
      /\ installer' # "DecompressFailed"
      /\ \E i \in 1..Len(tarball) :
           \/ EndsWith(tarball[i], <<"fernspielapparat">>)
           \/ EndsWith(tarball[i], <<"fernspielapparat", ".", "exe">>))
        => /\ installer' = "resolved"
           /\ pathToBinary' = userBinaryPath
           /\ executableName \in userDirFiles']_vars

\* the default directory of the platform as envForPlatform appends it
DefaultLibDir ==
  IF platform = "darwin"
  THEN <<"/Applications/VLC.app/Contents/MacOS", ":", "/Applications/VLC.app/Contents/MacOS/lib">>
  ELSE Str(processEnv.ProgramFiles) \o <<"\\VideoLAN\\VLC">>

\* the returned library search path for an ambient value without 'vlc'; an
\* empty value counts as unset
Extended(x) ==
  IF x.set /\ x.val # <<>> THEN Val(x.val \o <<delimiter>> \o DefaultLibDir)
  ELSE Val(DefaultLibDir)

\* C16: on darwin (DYLD_LIBRARY_PATH) and on win32 (Path), when the ambient
\* variable does not contain 'vlc', the variable envForPlatform returns is
\* the ambient value, the path delimiter and the default directory when the
\* ambient value is set, and the default directory alone when it is unset.
C16_DefaultDirIsAppended ==
  pc = "version"
    => /\ (platform = "darwin" /\ ~ReferencesVlc(processEnv.DYLD_LIBRARY_PATH))
            => spawnOpts.env.DYLD_LIBRARY_PATH = Extended(processEnv.DYLD_LIBRARY_PATH)
       /\ (platform = "win32" /\ ~ReferencesVlc(processEnv.Path))
            => spawnOpts.env.Path = Extended(processEnv.Path)

\* C17: in every state in which the launch is resolved with a handle or
\* rejected with the probe-timeout error, `starting` is false.
C17_NotStartingAfterSettlement ==
  (outcome.kind = "resolved" \/ outcome.err = "ProbeTimeout") => ~starting

\* C18: when the --version child writes 'a a' (a name, one space, a version)
\* and exits with code zero, the version probe resolves with the version
\* 'a' and getBinary with the bare name, in whatever order the 'data'
\* events and the 'exit' event arrive.
C18_VersionIndependentOfInterleaving ==
  (vchild = "exited" /\ vcode = 0 /\ childOut = <<"a", " ", "a">>)
    => /\ VersionOnExit(vcode, output) = [ok |-> TRUE, version |-> <<"a">>, err |-> ""]
       /\ resolver = "path"

\* C19: the step that rejects the launch with the probe-timeout error, like
\* every step of the prober after the spawn, leaves the server child as it
\* is, and a rejected launch carries no process reference and no URL.
C19_TimeoutLeavesChildRunning ==
  [][/\ (pc = "launch" /\ probe' # probe)
          => (server' = server /\ serverCode' = serverCode /\ port' = port)
     /\ (outcome.kind = "pending" /\ outcome'.err = "ProbeTimeout")
          => (server' = server /\ port' = port)
     /\ outcome'.kind = "rejected" => (outcome'.process = "" /\ outcome'.url = "")]_vars

\* the launch was rejected with the probe-timeout error; the child still
\* runs and has started to listen afterwards
C19_Witness ==
  /\ outcome = Rejected("ProbeTimeout", -1)
  /\ probe = "failed"
  /\ server = "running"
  /\ port

\* C20: envForPlatform applied to a mapping it returned gives that mapping
\* again, on every platform.
C20_OverlayIsIdempotent ==
  pc = "version" => envForPlatform(spawnOpts.env) = spawnOpts.env

\* on darwin the default directories were appended to an ambient value
\* without 'vlc', and the plugin path was set
C20_Witness ==
  /\ pc = "version"
  /\ platform = "darwin"
  /\ processEnv.DYLD_LIBRARY_PATH = Val(<<"/usr/lib">>)
  /\ ~processEnv.VLC_PLUGIN_PATH.set
  /\ spawnOpts.env.DYLD_LIBRARY_PATH # processEnv.DYLD_LIBRARY_PATH
  /\ spawnOpts.env.VLC_PLUGIN_PATH.set
  /\ envForPlatform(spawnOpts.env) = spawnOpts.env

====
